---- MODULE Spec2Model ----
(***************************************************************************)
(* Trade lifecycle of the trading bot: the in-memory TradingHistory        *)
(* (trades and positions), the IntelligentTrader operations that open,     *)
(* monitor and close positions, the adaptive indicator weights, the        *)
(* category scorers with the composition of a signal, and the batch scans. *)
(*                                                                         *)
(* Conventions.  Times are whole seconds.  Percentages are carried in      *)
(* basis points (1% = 100), so +15% is 1500 and -8% is -800.  An Optional  *)
(* field is <<>> for None and <<v>> for a value.  Weights are exact        *)
(* fractions <<numerator, denominator>> in lowest terms.                   *)
(***************************************************************************)
EXTENDS Integers, Sequences, FiniteSets, TLC

VARIABLES trades, positions, now, indicator_weights, updates, result,
          max_leverage, market, signal_cache, calls, sqlite_history, session_state

vars == <<trades, positions, now, indicator_weights, updates, result,
          max_leverage, market,
          signal_cache,
          calls,
          sqlite_history,
          session_state>>

(***************************************************************************)
(* Bounds of the model.                                                    *)
(***************************************************************************)
MaxTrades == 2
MaxOpenings == 4
MaxTicks == 1
MaxUpdates == 3
MaxDrift == 5

(***************************************************************************)
(* Program constants.                                                      *)
(***************************************************************************)
max_positions == 3
min_confidence_threshold == 70
max_hold_time_hours == 168
SecondsPerHour == 3600
TakeProfitBp == 1500
StopLossBp == -800
ReversalConfidence == 75
MinBalance == 10
position_size_pct == 3333
DefaultMaxLeverage == 5
HighLeverage == 3
HighLeverageConfidence == 85
MidLeverage == 2
MidLeverageConfidence == 80

Symbols == {"BTCUSDT", "ETHUSDT", "BNBUSDT"}
TradeActions == {"BUY", "SELL"}
Confidences == {60, 85}
LifecycleSymbols == {"BTCUSDT", "ETHUSDT"}
LifecycleConfidences == {85}
Quantities == {2}
DefaultConfidence == 0
EntryPrices == {100}
Prices == {91, 100, 116}
Balances == {5, 10000}
MaxHoldSeconds == max_hold_time_hours * SecondsPerHour
TickSteps == {MaxHoldSeconds, MaxHoldSeconds + 1}
MaxTime == MaxTicks * (MaxHoldSeconds + 1)
SignalActions == {"BUY", "SELL", "HOLD"}
ScoreValues == {50, 80}
Performances == {-5, 0, 5}
Categories == <<"technical", "fundamental", "sentiment", "momentum">>
CategorySet == {Categories[i] : i \in 1..Len(Categories)}

None == <<>>
Some(v) == <<v>>

(***************************************************************************)
(* TradingHistory (in-memory variant).                                     *)
(***************************************************************************)
TradeId(symbol, action, t) == <<symbol, action, t>>

TradeRecord(symbol, action, t, entry_price, quantity, confidence, demo) ==
    [trade_id |-> TradeId(symbol, action, t), symbol |-> symbol,
     action |-> action, entry_time |-> t, entry_price |-> entry_price,
     quantity |-> quantity, exit_time |-> None, exit_price |-> None,
     profit_pct |-> None, status |-> "OPEN", confidence |-> confidence,
     demo_mode |-> demo]

Position(symbol, side, quantity, entry_price, t) ==
    [symbol |-> symbol, side |-> side, quantity |-> quantity,
     entry_price |-> entry_price, current_price |-> entry_price,
     unrealized_pnl_pct |-> 0, entry_time |-> t]

remove_position(ps, symbol) ==
    LET Keep(p) == p.symbol # symbol IN SelectSeq(ps, Keep)

add_position(ps, symbol, side, quantity, entry_price, t) ==
    Append(remove_position(ps, symbol),
           Position(symbol, side, quantity, entry_price, t))

\* add_trade: the new trades list, the new positions list and the id returned.
add_trade(ts, ps, symbol, action, entry_price, quantity, confidence, demo, t) ==
    [trades |-> Append(ts, TradeRecord(symbol, action, t, entry_price,
                                       quantity, confidence, demo)),
     positions |-> IF action = "BUY"
                   THEN add_position(ps, symbol, "LONG", quantity, entry_price, t)
                   ELSE ps,
     trade_id |-> TradeId(symbol, action, t)]

\* The profit of a BUY trade, whatever the action.
ProfitPctLong(action, entry_price, exit_price, quantity, fees) ==
    (((exit_price - entry_price) * quantity - fees) * 10000)
        \div (entry_price * quantity)
\* Realised profit in basis points, as close_trade computes it.
ProfitPct(action, entry_price, exit_price, quantity, fees) ==
    LET profit_loss == IF action = "BUY"
                       THEN (exit_price - entry_price) * quantity - fees
                       ELSE (entry_price - exit_price) * quantity - fees
    IN  (profit_loss * 10000) \div (entry_price * quantity)

\* Index of the first trade close_trade acts on, 0 when there is none.
CloseIndex(ts, trade_id) ==
    LET hits == {i \in 1..Len(ts) :
                    ts[i].trade_id = trade_id /\ ts[i].status = "OPEN"}
    IN  IF hits = {} THEN 0
        ELSE CHOOSE i \in hits : \A j \in hits : i <= j

close_trade(ts, ps, trade_id, exit_price, fees, t) ==
    LET i == CloseIndex(ts, trade_id)
    IN  IF i = 0
        THEN [trades |-> ts, positions |-> ps, ok |-> FALSE]
        ELSE [trades |-> [ts EXCEPT ![i] =
                            [@ EXCEPT !.exit_time = Some(t),
                                      !.exit_price = Some(exit_price),
                                      !.status = "CLOSED",
                                      !.profit_pct =
                                         Some(ProfitPct(ts[i].action,
                                                        ts[i].entry_price,
                                                        exit_price,
                                                        ts[i].quantity,
                                                        fees))]],
              positions |-> remove_position(ps, ts[i].symbol),
              ok |-> TRUE]

PositionSymbols(ps) == {ps[i].symbol : i \in 1..Len(ps)}

get_open_trades(ts) ==
    LET IsOpen(tr) == tr.status = "OPEN" IN SelectSeq(ts, IsOpen)

clear_demo_trades(ts) ==
    LET Real(tr) == ~tr.demo_mode IN SelectSeq(ts, Real)

\* Unrealised profit in basis points, as update_position_prices computes it.
UnrealizedPnlPct(side, entry_price, current_price, quantity) ==
    LET unrealized_pnl == IF side = "LONG"
                          THEN (current_price - entry_price) * quantity
                          ELSE (entry_price - current_price) * quantity
    IN  (unrealized_pnl * 10000) \div (entry_price * quantity)

\* price_updates: a function from some of the symbols to prices.
update_position_prices(ps, price_updates) ==
    [i \in 1..Len(ps) |->
        IF ps[i].symbol \in DOMAIN price_updates
        THEN [ps[i] EXCEPT
                 !.current_price = price_updates[ps[i].symbol],
                 !.unrealized_pnl_pct =
                     UnrealizedPnlPct(ps[i].side, ps[i].entry_price,
                                      price_updates[ps[i].symbol],
                                      ps[i].quantity)]
        ELSE ps[i]]

(***************************************************************************)
(* Exact fractions, used for the indicator weights.                        *)
(***************************************************************************)
Abs(x) == IF x < 0 THEN -x ELSE x

RECURSIVE GCD(_, _)
GCD(a, b) == IF b = 0 THEN a ELSE GCD(b, a % b)

Frac(n, d) == LET g == GCD(Abs(n), d) IN <<n \div g, d \div g>>
FracAdd(a, b) ==
    LET g == GCD(a[2], b[2])
    IN  Frac(a[1] * (b[2] \div g) + b[1] * (a[2] \div g), (a[2] \div g) * b[2])
FracDiv(a, b) ==
    LET g1 == GCD(Abs(a[1]), b[1])
        g2 == GCD(a[2], b[2])
    IN  Frac((a[1] \div g1) * (b[2] \div g2), (a[2] \div g2) * (b[1] \div g1))
FracLess(a, b) ==
    LET g == GCD(a[2], b[2])
    IN  a[1] * (b[2] \div g) < b[1] * (a[2] \div g)
FracMax(a, b) == IF FracLess(a, b) THEN b ELSE a
FracMin(a, b) == IF FracLess(b, a) THEN b ELSE a

DefaultWeights ==
    [c \in CategorySet |->
        CASE c = "technical" -> Frac(35, 100)
          [] c = "fundamental" -> Frac(25, 100)
          [] c = "sentiment" -> Frac(20, 100)
          [] c = "momentum" -> Frac(20, 100)]

success_weight_adjustment == Frac(1, 10)
failure_weight_adjustment == Frac(-5, 100)
MinWeight == Frac(1, 10)
MaxWeight == Frac(6, 10)

WeightSum(w) ==
    FracAdd(FracAdd(w["technical"], w["fundamental"]),
            FracAdd(w["sentiment"], w["momentum"]))

\* max(scores.items(), key=score): the first category, in dictionary order,
\* whose score is the highest.
StrongestFactor(scores) ==
    LET best == {i \in 1..Len(Categories) :
                    \A j \in 1..Len(Categories) :
                        scores[Categories[j]] <= scores[Categories[i]]}
    IN  Categories[CHOOSE i \in best : \A j \in best : i <= j]

AdjustedWeights(w, scores, performance) ==
    LET adjustment == IF performance > 0 THEN success_weight_adjustment
                      ELSE failure_weight_adjustment
        strongest_factor == StrongestFactor(scores)
        new_weight == FracMax(MinWeight,
                              FracMin(MaxWeight,
                                      FracAdd(w[strongest_factor], adjustment)))
    IN  [w EXCEPT ![strongest_factor] = new_weight]

\* The weights left as adjusted, the division by their total omitted.
UnnormalizedWeights(w) == w

NormalizedWeights(w) ==
    LET total_weight == WeightSum(w)
    IN  [c \in CategorySet |-> FracDiv(w[c], total_weight)]

\* raises: the scores cannot be compared and max() raises; the handler logs
\* the error and the weights stay as they were.
update_ai_weights(w, scores, performance, raises) ==
    IF raises THEN w
    ELSE NormalizedWeights(AdjustedWeights(w, scores, performance))

(***************************************************************************)
(* Responses of the collaborators (exchange client, signal analysis).      *)
(***************************************************************************)
TickerError == [error |-> TRUE, price |-> 0]
Ticker(p) == [error |-> FALSE, price |-> p]
EntryTickers == {TickerError} \cup {Ticker(p) : p \in EntryPrices \cup {0}}
ExitTickers == {TickerError} \cup {Ticker(p) : p \in Prices}
AccountError == [error |-> TRUE, usdt |-> 0]
Account(b) == [error |-> FALSE, usdt |-> b]
Accounts == {AccountError} \cup {Account(b) : b \in Balances}
NoAnalysis == [ok |-> FALSE, action |-> "HOLD", confidence |-> 0]
Analysis(a, c) == [ok |-> TRUE, action |-> a, confidence |-> c]
AnalysisOutcomes ==
    {NoAnalysis} \cup {Analysis(a, c) : a \in SignalActions, c \in Confidences}
RaisePoints == {"none", "price", "notify"}

\* The responses one execute_trade call meets: at most one of them is a fault.
GoodTicker(ticker) == ~ticker.error /\ ticker.price > 0
GoodAccount(account) == ~account.error /\ account.usdt >= MinBalance
Faults(env) ==
    (IF GoodTicker(env.ticker) THEN 0 ELSE 1)
    + (IF GoodAccount(env.account) THEN 0 ELSE 1)
    + (IF env.order_error THEN 1 ELSE 0)
    + (IF env.raise = "none" THEN 0 ELSE 1)
ExecuteEnvs ==
    {env \in [ticker : EntryTickers, account : Accounts,
              order_error : BOOLEAN, raise : RaisePoints] : Faults(env) <= 1}

\* What the last call returned: its success flag and, for a pass over the
\* positions, the list of close results.
Result(op, success, results) ==
    [op |-> op, success |-> success, results |-> results]
NoResult == Result("none", FALSE, <<>>)
\* The message of a failure names its cause; its text is not kept.
Failure(message) == Result("execute_trade", FALSE, <<>>)
\* A success reports the leverage that was applied.
Success(leverage) ==
    Result("execute_trade", TRUE, <<[leverage |-> leverage]>>)

\* market: the data an analysis works on.  Outside the analysis
\* specifications nothing is analysed and the market is empty.
NoMarket == [bars |-> 0]

\* signal_cache: the SignalGenerator's cache, empty when it is constructed.
NoSignals == [key \in {} |-> <<>>]

\* calls: the execute_trade invocations in flight, one per worker of a host
\* that handles symbols in parallel.
Threads == {1, 2}
Idle == [pc |-> "idle"]
NoCalls == [th \in Threads |-> Idle]

\* sqlite_history: the TradingHistory that keeps its trades and positions
\* in SQLite: its in-memory positions, and the rows of its two tables.
NoRows == [symbol \in {} |-> <<>>]
NoHistory ==
    [positions |-> NoRows, positions_table |-> NoRows, trades_table |-> <<>>]

\* session_state: the keys of st.session_state the live trading page uses;
\* a key that is not set yet reads as False.
NoSession ==
    [risks_accepted |-> FALSE, live_auto_trading |-> FALSE,
     trading_confirmed |-> FALSE, live_data_last_update |-> 0]

(***************************************************************************)
(* IntelligentTrader.                                                      *)
(***************************************************************************)
demo_mode == TRUE

Min(a, b) == IF a < b THEN a ELSE b

Leverage(confidence) ==
    IF confidence >= HighLeverageConfidence THEN Min(max_leverage, HighLeverage)
    ELSE IF confidence >= MidLeverageConfidence THEN MidLeverage
    ELSE 1

\* quantity = usdt_balance * position_size_pct / 100 * leverage / price,
\* in whole units.
Quantity(usdt_balance, leverage, current_price) ==
    (usdt_balance * position_size_pct * leverage) \div (10000 * current_price)

\* execute_trade: what the call leaves in trades and positions, and what it
\* returns.  raise names the step at which an exception is raised, if any.
execute_trade(ts, ps, symbol, action, confidence, ticker, account, order_error, raise, t) ==
    LET unchanged(message) ==
            [trades |-> ts, positions |-> ps, result |-> Failure(message)]
        current_price == ticker.price
        quantity == Quantity(account.usdt, Leverage(confidence), current_price)
        recorded == add_trade(ts, ps, symbol, action, current_price, quantity,
                              confidence, demo_mode, t)
    IN  IF Len(ps) >= max_positions THEN unchanged("max_positions")
        ELSE IF ticker.error THEN unchanged("price_error")
        ELSE IF raise = "price" THEN unchanged("exception")
        ELSE IF current_price <= 0 THEN unchanged("bad_price")
        ELSE IF account.error THEN unchanged("balance_error")
        ELSE IF account.usdt < MinBalance THEN unchanged("low_balance")
        ELSE IF order_error THEN unchanged("order_error")
        ELSE IF raise = "notify"
             THEN [trades |-> recorded.trades, positions |-> recorded.positions,
                   result |-> Failure("exception")]
        ELSE [trades |-> recorded.trades, positions |-> recorded.positions,
              result |-> Success(Leverage(confidence))]

ShouldClose(close, reason) == [close |-> close, reason |-> reason]

PnlExit(position, t) ==
    \/ t - position.entry_time > MaxHoldSeconds
    \/ position.unrealized_pnl_pct > TakeProfitBp
    \/ position.unrealized_pnl_pct < StopLossBp

\* The profit and loss thresholds looked at before the holding time.
ShouldCloseProfitFirst(position, analysis, t) ==
    IF position.unrealized_pnl_pct > TakeProfitBp
    THEN ShouldClose(TRUE, "take_profit")
    ELSE IF position.unrealized_pnl_pct < StopLossBp
    THEN ShouldClose(TRUE, "stop_loss")
    ELSE IF t - position.entry_time > MaxHoldSeconds
    THEN ShouldClose(TRUE, "max_hold_time")
    ELSE ShouldClose(FALSE, "")
_should_close_position(position, analysis, t) ==
    IF t - position.entry_time > MaxHoldSeconds
    THEN ShouldClose(TRUE, "max_hold_time")
    ELSE IF position.unrealized_pnl_pct > TakeProfitBp
    THEN ShouldClose(TRUE, "take_profit")
    ELSE IF position.unrealized_pnl_pct < StopLossBp
    THEN ShouldClose(TRUE, "stop_loss")
    ELSE IF /\ analysis.ok
            /\ position.side = "LONG"
            /\ analysis.action = "SELL"
            /\ analysis.confidence > ReversalConfidence
    THEN ShouldClose(TRUE, "sell_signal")
    ELSE IF /\ analysis.ok
            /\ position.side = "SHORT"
            /\ analysis.action = "BUY"
            /\ analysis.confidence > ReversalConfidence
    THEN ShouldClose(TRUE, "buy_signal")
    ELSE ShouldClose(FALSE, "")

\* _learn_from_trade: chooses an adjustment and logs; the weights stay.
_learn_from_trade(w, trade, profit_pct) == w

TraderProfitPct(action, entry_price, current_price) ==
    IF action = "BUY"
    THEN ((current_price - entry_price) * 10000) \div entry_price
    ELSE ((entry_price - current_price) * 10000) \div entry_price

\* _close_position on the state st = [trades, positions, weights, results].
_close_position(st, trade, reason, ticker, order_error, t) ==
    LET current_price == IF ticker.error THEN 0 ELSE ticker.price
        closed == close_trade(st.trades, st.positions, trade.trade_id,
                              current_price, 0, t)
        profit_pct == TraderProfitPct(trade.action, trade.entry_price,
                                      current_price)
    IN  IF ~order_error
        THEN [trades |-> closed.trades, positions |-> closed.positions,
              weights |-> _learn_from_trade(st.weights, trade, profit_pct),
              results |-> Append(st.results,
                                 [symbol |-> trade.symbol, action |-> "closed",
                                  profit_pct |-> profit_pct, reason |-> reason])]
        ELSE [st EXCEPT !.results =
                 Append(@, [symbol |-> trade.symbol, action |-> "error",
                            profit_pct |-> 0, reason |-> reason])]

\* next((t for t in open_trades if t.symbol == symbol), None), as an index
\* into open_trades; 0 stands for None.
FirstOpenTrade(open_trades, symbol) ==
    LET hits == {i \in 1..Len(open_trades) : open_trades[i].symbol = symbol}
    IN  IF hits = {} THEN 0
        ELSE CHOOSE i \in hits : \A j \in hits : i <= j

\* The loop of manage_positions from the i-th position of the snapshot on:
\* every state the pass can end in, over the responses of the collaborators.
RECURSIVE ManageFrom(_, _, _, _, _, _)
ManageFrom(snapshot, open_trades, live, i, st, t) ==
    IF i > Len(snapshot) THEN {st}
    ELSE
      LET position == snapshot[i]
          k == FirstOpenTrade(open_trades, position.symbol)
          outcomes == IF PnlExit(position, t) THEN {NoAnalysis}
                      ELSE AnalysisOutcomes
      IN  UNION {
            IF _should_close_position(position, analysis, t).close /\ k # 0
            THEN UNION {
                   ManageFrom(snapshot, open_trades, live, i + 1,
                              _close_position(st, open_trades[k],
                                 _should_close_position(position, analysis, t).reason,
                                 ticker, order_error, t),
                              t) :
                   ticker \in {TickerError, Ticker(live[position.symbol])},
                   order_error \in BOOLEAN}
            ELSE ManageFrom(snapshot, open_trades, live, i + 1, st, t) :
            analysis \in outcomes}

\* live: the price the exchange quotes for each symbol during the pass.
manage_positions(ts, ps, w, live, t) ==
    ManageFrom(ps, get_open_trades(ts), live, 1,
               [trades |-> ts, positions |-> ps, weights |-> w,
                results |-> <<>>], t)

Init ==
    /\ trades = <<>>
    /\ positions = <<>>
    /\ now = 0
    /\ indicator_weights = DefaultWeights
    /\ updates = 0
    /\ result = NoResult
    /\ max_leverage = DefaultMaxLeverage
    /\ session_state = NoSession
    /\ sqlite_history = NoHistory
    /\ calls = NoCalls
    /\ signal_cache = NoSignals
    /\ market = NoMarket

\* The clock advances between calls.
Tick ==
    /\ \E d \in TickSteps : now + d <= MaxTime /\ now' = now + d
    /\ UNCHANGED <<trades, positions, indicator_weights, updates, result, max_leverage, market,
                   signal_cache,
                   calls,
                   sqlite_history,
                   session_state>>

\* IntelligentTrader.execute_trade, as called for a signal, while fewer than
\* cap trades are recorded.
ExecuteTradeUpTo(cap, symbols, confidences) ==
    /\ Len(trades) < cap
    /\ \E symbol \in symbols, action \in TradeActions, confidence \in confidences,
          env \in ExecuteEnvs :
          LET out == execute_trade(trades, positions, symbol, action, confidence,
                                   env.ticker, env.account, env.order_error,
                                   env.raise, now)
          IN  /\ trades' = out.trades
              /\ positions' = out.positions
              /\ result' = out.result
    /\ UNCHANGED <<now, indicator_weights, updates, max_leverage, market,
                   signal_cache,
                   calls,
                   sqlite_history,
                   session_state>>

ExecuteTrade == ExecuteTradeUpTo(MaxTrades, LifecycleSymbols, LifecycleConfidences)

\* IntelligentTrader.manage_positions, one pass at the live prices.
ManagePositionsAt(live) ==
    /\ \E out \in manage_positions(trades, positions, indicator_weights, live, now) :
          /\ trades' = out.trades
          /\ positions' = out.positions
          /\ indicator_weights' = out.weights
          /\ result' = Result("manage_positions", TRUE, out.results)
    /\ UNCHANGED <<now, updates, max_leverage, market,
                   signal_cache,
                   calls,
                   sqlite_history,
                   session_state>>

ManagePositions ==
    \E live \in [PositionSymbols(positions) -> Prices] : ManagePositionsAt(live)

\* close_position of the trading panel: _close_position for the first open
\* trade of a position's symbol.
ClosePositionWith(i, ticker, order_error) ==
    /\ LET open_trades == get_open_trades(trades)
           k == FirstOpenTrade(open_trades, positions[i].symbol)
       IN  /\ k # 0
           /\ LET out == _close_position(
                            [trades |-> trades, positions |-> positions,
                             weights |-> indicator_weights, results |-> <<>>],
                            open_trades[k], "manual", ticker, order_error, now)
              IN  /\ trades' = out.trades
                  /\ positions' = out.positions
                  /\ indicator_weights' = out.weights
                  /\ result' = Result("_close_position", TRUE, out.results)
    /\ UNCHANGED <<now, updates, max_leverage, market,
                   signal_cache,
                   calls,
                   sqlite_history,
                   session_state>>

ClosePosition ==
    \E i \in 1..Len(positions), ticker \in ExitTickers, order_error \in BOOLEAN :
        ClosePositionWith(i, ticker, order_error)

\* IntelligentTrader.update_ai_weights, called with the analysis scores
\* recorded on a trade and the performance of that trade.
UpdateAIWeights ==
    /\ updates < MaxUpdates
    /\ \E scores \in [CategorySet -> ScoreValues], performance \in Performances,
          raises \in BOOLEAN :
          indicator_weights' = update_ai_weights(indicator_weights, scores,
                                                 performance, raises)
    /\ updates' = updates + 1
    /\ UNCHANGED <<trades, positions, now, result, max_leverage, market,
                   signal_cache,
                   calls,
                   sqlite_history,
                   session_state>>

\* TradingHistory.update_position_prices, the price refresh of a host.
UpdatePositionPrices ==
    /\ \E S \in SUBSET PositionSymbols(positions) :
       \E price_updates \in [S -> Prices] :
          positions' = update_position_prices(positions, price_updates)
    /\ result' = Result("update_position_prices", TRUE, <<>>)
    /\ UNCHANGED <<trades, now, indicator_weights, updates, max_leverage, market,
                   signal_cache,
                   calls,
                   sqlite_history,
                   session_state>>

Next ==
    \/ Tick
    \/ ExecuteTrade
    \/ ManagePositions
    \/ ClosePosition
    \/ UpdatePositionPrices

Spec == Init /\ [][Next]_vars

(***************************************************************************)
(* TradingHistory used directly through its own methods.                   *)
(***************************************************************************)
AddTrade ==
    /\ Len(trades) < MaxTrades
    /\ \E symbol \in LifecycleSymbols, action \in TradeActions,
          entry_price \in EntryPrices, quantity \in Quantities,
          demo \in BOOLEAN :
          LET out == add_trade(trades, positions, symbol, action, entry_price,
                               quantity, DefaultConfidence, demo, now)
          IN  /\ trades' = out.trades
              /\ positions' = out.positions
    /\ result' = Result("add_trade", TRUE, <<>>)
    /\ UNCHANGED <<now, indicator_weights, updates, max_leverage, market,
                   signal_cache,
                   calls,
                   sqlite_history,
                   session_state>>

CloseTrade(trade_id, exit_price) ==
    /\ LET out == close_trade(trades, positions, trade_id, exit_price, 0, now)
       IN  /\ trades' = out.trades
           /\ positions' = out.positions
           /\ result' = Result("close_trade", out.ok, <<>>)
    /\ UNCHANGED <<now, indicator_weights, updates, max_leverage, market,
                   signal_cache,
                   calls,
                   sqlite_history,
                   session_state>>

UnknownId == TradeId("BTCUSDT", "BUY", -1)

CloseSomeTrade ==
    \E trade_id \in {trades[i].trade_id : i \in 1..Len(trades)} \cup {UnknownId},
       exit_price \in Prices :
       CloseTrade(trade_id, exit_price)

ClearDemoTrades ==
    /\ trades' = clear_demo_trades(trades)
    /\ positions' = <<>>
    /\ result' = Result("clear_demo_trades", TRUE, <<>>)
    /\ UNCHANGED <<now, indicator_weights, updates, max_leverage, market,
                   signal_cache,
                   calls,
                   sqlite_history,
                   session_state>>

NextHistory ==
    \/ Tick
    \/ AddTrade
    \/ CloseSomeTrade
    \/ ClearDemoTrades

SpecHistory == Init /\ [][NextHistory]_vars

\* Opening trades only, up to MaxOpenings of them.
Openings == ExecuteTradeUpTo(MaxOpenings, Symbols, Confidences)

NextOpen == Openings

SpecOpen == Init /\ [][NextOpen]_vars

NextWeights == UpdateAIWeights

SpecWeights == Init /\ [][NextWeights]_vars

\* A run of closed trades, each one reported to update_ai_weights with its
\* analysis scores and its performance; the call is kept in result.
LearnFromClosedTrade ==
    /\ updates < MaxDrift
    /\ \E scores \in [CategorySet -> ScoreValues], performance \in Performances :
          /\ indicator_weights' = update_ai_weights(indicator_weights, scores,
                                                    performance, FALSE)
          /\ result' = Result("update_ai_weights", TRUE,
                              <<[strongest_factor |-> StrongestFactor(scores),
                                 performance |-> performance]>>)
    /\ updates' = updates + 1
    /\ UNCHANGED <<trades, positions, now, max_leverage, market,
                   signal_cache,
                   calls,
                   sqlite_history,
                   session_state>>

NextDrift == LearnFromClosedTrade

SpecDrift == Init /\ [][NextDrift]_vars
(***************************************************************************)
(* Signal composition: analyze_symbol's weighted total and                 *)
(* _interpret_analysis_score.  Category scores are whole numbers, the      *)
(* total and the confidence exact fractions.                               *)
(***************************************************************************)
BuyThreshold == 65
SellThreshold == 35
HoldConfidence == 50
MaxConfidence == 95
\* np.std(scores) > 20 and < 10, on 16 times the variance of four scores.
HighDispersion == 16 * 20 * 20
LowDispersion == 16 * 10 * 10
HighDispersionFactor == Frac(8, 10)
LowDispersionFactor == Frac(11, 10)

ComposeScores == {0, 20, 35, 50, 65, 80, 100}
WeightChoices ==
    {DefaultWeights,
     [c \in CategorySet |-> Frac(1, 4)],
     [c \in CategorySet |->
        IF c = "technical" THEN Frac(6, 10)
        ELSE IF c = "fundamental" THEN Frac(2, 10) ELSE Frac(1, 10)]}

FracMul(a, b) == Frac(a[1] * b[1], a[2] * b[2])
FracLeq(a, b) == ~FracLess(b, a)

\* total_score of analyze_symbol: the weighted sum of the category scores.
total_score(scores, w) ==
    FracAdd(FracAdd(FracMul(Frac(scores["technical"], 1), w["technical"]),
                    FracMul(Frac(scores["fundamental"], 1), w["fundamental"])),
            FracAdd(FracMul(Frac(scores["sentiment"], 1), w["sentiment"]),
                    FracMul(Frac(scores["momentum"], 1), w["momentum"])))

\* The thresholds 70 and 30 in place of 65 and 35.
ScoreActionWide(total) ==
    IF FracLeq(Frac(70, 1), total) THEN "BUY"
    ELSE IF FracLeq(total, Frac(30, 1)) THEN "SELL"
    ELSE "HOLD"
ScoreAction(total) ==
    IF FracLeq(Frac(BuyThreshold, 1), total) THEN "BUY"
    ELSE IF FracLeq(total, Frac(SellThreshold, 1)) THEN "SELL"
    ELSE "HOLD"

\* 16 * np.std(scores)^2 = 4 * sum of squares - square of the sum.
Dispersion(scores) ==
    LET t == scores["technical"]
        f == scores["fundamental"]
        s == scores["sentiment"]
        m == scores["momentum"]
    IN  4 * (t * t + f * f + s * s + m * m)
        - (t + f + s + m) * (t + f + s + m)

BaseConfidence(action, total) ==
    IF action = "BUY" THEN total
    ELSE IF action = "SELL" THEN FracAdd(Frac(100, 1), <<-total[1], total[2]>>)
    ELSE Frac(HoldConfidence, 1)

ScaledConfidence(confidence, scores) ==
    IF Dispersion(scores) > HighDispersion
    THEN FracMul(confidence, HighDispersionFactor)
    ELSE IF Dispersion(scores) < LowDispersion
    THEN FracMul(confidence, LowDispersionFactor)
    ELSE confidence

UnclampedConfidence(confidence) == confidence
ClampConfidence(confidence) ==
    FracMax(Frac(0, 1), FracMin(Frac(MaxConfidence, 1), confidence))

_interpret_analysis_score(total, scores) ==
    LET action == ScoreAction(total)
    IN  [action |-> action,
         confidence |->
             ClampConfidence(
                 ScaledConfidence(BaseConfidence(action, total), scores))]

\* The dict analyze_symbol returns for a symbol it could analyse.
SymbolAnalysis(scores, w) ==
    LET total == total_score(scores, w)
        signal == _interpret_analysis_score(total, scores)
    IN  [action |-> signal.action, confidence |-> signal.confidence,
         scores |-> scores, total_score |-> total]

\* The composition applied to four category scores under the weights of
\* the session.
InitCompose ==
    /\ trades = <<>>
    /\ positions = <<>>
    /\ now = 0
    /\ indicator_weights \in WeightChoices
    /\ updates = 0
    /\ result = NoResult
    /\ max_leverage = DefaultMaxLeverage
    /\ session_state = NoSession
    /\ sqlite_history = NoHistory
    /\ calls = NoCalls
    /\ signal_cache = NoSignals
    /\ market \in {[scores |-> scores] : scores \in [CategorySet -> ComposeScores]}

InterpretAnalysisScore ==
    /\ result' = Result("_interpret_analysis_score", TRUE,
                        <<SymbolAnalysis(market.scores, indicator_weights)>>)
    /\ UNCHANGED <<trades, positions, now, indicator_weights, updates,
                   max_leverage, market,
                   signal_cache,
                   calls,
                   sqlite_history,
                   session_state>>

NextCompose == InterpretAnalysisScore

SpecCompose == InitCompose /\ [][NextCompose]_vars

(***************************************************************************)
(* SignalGenerator: the composition of its four component scores.          *)
(***************************************************************************)
strong_signal_threshold == 80
weak_signal_threshold == 55
SignalHighDispersion == 16 * 25 * 25
SignalLowDispersion == 16 * 15 * 15

ComponentSet ==
    {"technical_score", "price_action_score", "volume_score", "sentiment_score"}

signal_weights ==
    [technical_indicators |-> Frac(40, 100), price_action |-> Frac(25, 100),
     volume_analysis |-> Frac(15, 100), sentiment |-> Frac(20, 100)]

final_score(components) ==
    FracAdd(FracAdd(FracMul(Frac(components["technical_score"], 1),
                            signal_weights.technical_indicators),
                    FracMul(Frac(components["price_action_score"], 1),
                            signal_weights.price_action)),
            FracAdd(FracMul(Frac(components["volume_score"], 1),
                            signal_weights.volume_analysis),
                    FracMul(Frac(components["sentiment_score"], 1),
                            signal_weights.sentiment)))

\* 16 * np.std(scores)^2 of the four component scores.
SignalDispersion(components) ==
    LET t == components["technical_score"]
        p == components["price_action_score"]
        v == components["volume_score"]
        s == components["sentiment_score"]
    IN  4 * (t * t + p * p + v * v + s * s)
        - (t + p + v + s) * (t + p + v + s)

SignalScaledConfidence(confidence, components) ==
    IF SignalDispersion(components) > SignalHighDispersion
    THEN FracMul(confidence, HighDispersionFactor)
    ELSE IF SignalDispersion(components) < SignalLowDispersion
    THEN FracMul(confidence, LowDispersionFactor)
    ELSE confidence

SignalStrength(confidence) ==
    IF FracLeq(Frac(strong_signal_threshold, 1), confidence) THEN "Strong"
    ELSE IF FracLeq(Frac(weak_signal_threshold, 1), confidence) THEN "Moderate"
    ELSE "Weak"

_interpret_signal(final, components) ==
    LET action == ScoreAction(final)
        confidence ==
            SignalScaledConfidence(BaseConfidence(action, final), components)
    IN  [action |-> action,
         confidence |-> ClampConfidence(confidence),
         strength |-> SignalStrength(confidence),
         final_score |-> final]

InitInterpret ==
    /\ trades = <<>>
    /\ positions = <<>>
    /\ now = 0
    /\ indicator_weights = DefaultWeights
    /\ updates = 0
    /\ result = NoResult
    /\ max_leverage = DefaultMaxLeverage
    /\ session_state = NoSession
    /\ sqlite_history = NoHistory
    /\ calls = NoCalls
    /\ signal_cache = NoSignals
    /\ market \in {[components |-> c] : c \in [ComponentSet -> ComposeScores]}

InterpretSignal ==
    /\ result' = Result("_interpret_signal", TRUE,
                        <<_interpret_signal(final_score(market.components),
                                            market.components)>>)
    /\ UNCHANGED <<trades, positions, now, indicator_weights, updates,
                   max_leverage, market,
                   signal_cache,
                   calls,
                   sqlite_history,
                   session_state>>

NextInterpret == InterpretSignal

SpecInterpret == InitInterpret /\ [][NextInterpret]_vars

(***************************************************************************)
(* The four category scorers and analyze_symbol.  The market holds what    *)
(* the scorers read: the number of bars, the latest indicator values, the  *)
(* volume and volatility statistics, the trend strength, the news          *)
(* sentiment (in hundredths) and the momentum percentages.                 *)
(***************************************************************************)
NeutralScore == 50
MinBars == 50

RsiValues == {20, 50, 80}
MacdValues == {-1, 1}
\* recent and historical average volume.
VolumePairs == {<<200, 100>>, <<100, 100>>, <<40, 100>>}
\* standard deviation of the hourly returns, in basis points.
Volatilities == {100, 500, 2000}
Strengths == {"Strong", "Moderate", "Unknown"}
\* sentiment_score of the news on the symbol, None when there is none.
NewsScores == {None, Some(-150), Some(60), Some(150)}
MomentumPcts == {-6, -3, 0, 3, 6}
VolumeMomentums == {-30, 0, 30}
\* Where an exception is raised during an analysis, if anywhere.
AnalysisRaises ==
    {"none", "technical", "fundamental", "sentiment", "momentum",
     "comprehensive", "analyze"}

Indicators(rsi, macd) ==
    [rsi |-> rsi, macd |-> macd, macd_signal |-> 0, sma_10 |-> 100,
     sma_20 |-> 100, bb_upper |-> 105, bb_lower |-> 95, stoch_k |-> 50,
     stoch_d |-> 50, current_price |-> 100]

Market(bars, rsi, macd, volume, volatility, strength, news, momentum_pct, vol_momentum) ==
    [bars |-> bars, indicators |-> Indicators(rsi, macd), volume |-> volume,
     volatility |-> volatility, strength |-> strength, news |-> news,
     market_sentiment |-> 0, momentum_pct |-> momentum_pct,
     vol_momentum |-> vol_momentum]

\* Every market of 100 bars, and the short series of 10 bars over the
\* indicator values.
Markets ==
    {Market(100, rsi, macd, volume, volatility, strength, news,
            momentum_pct, vol_momentum) :
        rsi \in RsiValues, macd \in MacdValues,
        volume \in VolumePairs, volatility \in Volatilities,
        strength \in Strengths, news \in NewsScores,
        momentum_pct \in MomentumPcts, vol_momentum \in VolumeMomentums}
    \cup {Market(10, rsi, macd, <<100, 100>>, 100, "Unknown", None, 0, 0) :
             rsi \in RsiValues, macd \in MacdValues}

\* dict.get(key, default)
Get(dict, key, default) == IF key \in DOMAIN dict THEN dict[key] ELSE default

\* TechnicalAnalysis.get_comprehensive_analysis: an error dict when there
\* are too few bars or a step raises, the indicator values otherwise.
get_comprehensive_analysis(data, raises) ==
    IF data.bars < MinBars THEN [error |-> "Insufficient data"]
    ELSE IF raises THEN [error |-> "exception"]
    ELSE data.indicators

UnclampedScore(score) == score
ClampScore(score) ==
    IF score > 100 THEN 100 ELSE IF score < 0 THEN 0 ELSE score

\* The score _calculate_technical_score derives from an analysis dict.
TechnicalScoreOf(analysis) ==
    IF DOMAIN analysis = {} THEN NeutralScore
    ELSE
      LET rsi == Get(analysis, "rsi", 50)
          macd == Get(analysis, "macd", 0)
          macd_signal == Get(analysis, "macd_signal", 0)
          price == Get(analysis, "price", 0)
          sma_20 == Get(analysis, "sma_20", 0)
          bb_upper == Get(analysis, "bb_upper", 0)
          bb_lower == Get(analysis, "bb_lower", 0)
      IN  ClampScore(
            NeutralScore
            + (IF rsi < 30 THEN 15 ELSE IF rsi > 70 THEN -15 ELSE 0)
            + (IF macd > macd_signal THEN 10 ELSE -10)
            + (IF price > sma_20 THEN 10 ELSE -10)
            + (IF price > bb_upper THEN -5
               ELSE IF price < bb_lower THEN 5 ELSE 0))

_calculate_technical_score(df, raise) ==
    IF raise = "technical" THEN NeutralScore
    ELSE TechnicalScoreOf(
             get_comprehensive_analysis(df, raise = "comprehensive"))

_calculate_fundamental_score(df, raise) ==
    IF raise = "fundamental" THEN NeutralScore
    ELSE
      LET recent_volume == df.volume[1]
          historical_volume == df.volume[2]
      IN  ClampScore(
            NeutralScore
            + (IF 2 * recent_volume > 3 * historical_volume THEN 20
               ELSE IF 2 * recent_volume < historical_volume THEN -10 ELSE 0)
            + (IF 200 < df.volatility /\ df.volatility < 800 THEN 10
               ELSE IF df.volatility > 1500 THEN -5 ELSE 0)
            + (IF df.strength = "Strong" THEN 15
               ELSE IF df.strength = "Moderate" THEN 5 ELSE 0))

\* (sentiment_score + 1) * 50 with the sentiment in hundredths.
_calculate_sentiment_score(df, raise) ==
    IF raise = "sentiment" THEN NeutralScore
    ELSE IF df.news # None
    THEN ClampScore((df.news[1] + 100) \div 2)
    ELSE ClampScore((df.market_sentiment + 100) \div 2)

_calculate_momentum_score(df, raise) ==
    IF raise = "momentum" THEN NeutralScore
    ELSE ClampScore(
           NeutralScore
           + (IF df.momentum_pct > 5 THEN 20
              ELSE IF df.momentum_pct > 2 THEN 10
              ELSE IF df.momentum_pct < -5 THEN -20
              ELSE IF df.momentum_pct < -2 THEN -10 ELSE 0)
           + (IF df.vol_momentum > 20 THEN 10
              ELSE IF df.vol_momentum < -20 THEN -5 ELSE 0))

CategoryScores(df, raise) ==
    [c \in CategorySet |->
        IF c = "technical" THEN _calculate_technical_score(df, raise)
        ELSE IF c = "fundamental" THEN _calculate_fundamental_score(df, raise)
        ELSE IF c = "sentiment" THEN _calculate_sentiment_score(df, raise)
        ELSE _calculate_momentum_score(df, raise)]

\* analyze_symbol: None (no results) when the klines are missing or too
\* few or an exception escapes, the composed analysis otherwise.
analyze_symbol(df, w, klines_error, raise) ==
    IF klines_error \/ df.bars < MinBars \/ raise = "analyze"
    THEN Result("analyze_symbol", FALSE, <<>>)
    ELSE Result("analyze_symbol", TRUE,
                <<SymbolAnalysis(CategoryScores(df, raise), w)>>)

InitScores ==
    /\ trades = <<>>
    /\ positions = <<>>
    /\ now = 0
    /\ indicator_weights = DefaultWeights
    /\ updates = 0
    /\ result = NoResult
    /\ max_leverage = DefaultMaxLeverage
    /\ session_state = NoSession
    /\ sqlite_history = NoHistory
    /\ calls = NoCalls
    /\ signal_cache = NoSignals
    /\ market \in Markets

\* The klines request fails, or at most one step of the analysis raises.
AnalysisEnvs ==
    {[klines_error |-> FALSE, raise |-> raise] : raise \in AnalysisRaises}
    \cup {[klines_error |-> TRUE, raise |-> "none"]}

AnalyzeSymbol ==
    /\ \E env \in AnalysisEnvs :
          result' = analyze_symbol(market, indicator_weights,
                                   env.klines_error, env.raise)
    /\ UNCHANGED <<trades, positions, now, indicator_weights, updates,
                   max_leverage, market,
                   signal_cache,
                   calls,
                   sqlite_history,
                   session_state>>

\* _calculate_technical_score called on the data frame of the market.
CalculateTechnicalScore ==
    /\ \E raise \in {"none", "technical", "comprehensive"} :
          result' = Result("_calculate_technical_score", TRUE,
                           <<[technical_score |->
                                 _calculate_technical_score(market, raise),
                              raise |-> raise]>>)
    /\ UNCHANGED <<trades, positions, now, indicator_weights, updates,
                   max_leverage, market,
                   signal_cache,
                   calls,
                   sqlite_history,
                   session_state>>

NextScores ==
    \/ AnalyzeSymbol
    \/ CalculateTechnicalScore

SpecScores == InitScores /\ [][NextScores]_vars

(***************************************************************************)
(* The technical scorers of IntelligentTrader and SignalGenerator over a   *)
(* rising RSI.  TechnicalIndicators.get_all_indicators is not part of the   *)
(* sources; its latest values are inputs.                                  *)
(***************************************************************************)
RsiSweep == {20, 29, 30, 35, 40, 50, 60, 65, 70, 71, 80}

AdvancedIndicators ==
    {[analysis_complete |-> FALSE],
     [analysis_complete |-> TRUE,
      latest_values |-> [williams_r |-> -90, cci |-> 0, mfi |-> 50,
                         current_price |-> 100, parabolic_sar |-> 95]],
     [analysis_complete |-> TRUE,
      latest_values |-> [williams_r |-> -10, cci |-> 150, mfi |-> 90,
                         current_price |-> 100, parabolic_sar |-> 105]]}

SweepMarkets ==
    {[bars |-> 100, indicators |-> Indicators(rsi, macd), advanced |-> a] :
        rsi \in RsiSweep, macd \in MacdValues, a \in AdvancedIndicators}

\* The adjustments for Williams %R, CCI, MFI and Parabolic SAR.
AdvancedScore(indicators_data) ==
    IF ~Get(indicators_data, "analysis_complete", FALSE) THEN 0
    ELSE
      LET latest_values == indicators_data.latest_values
          williams_r == Get(latest_values, "williams_r", 0)
          cci == Get(latest_values, "cci", 0)
          mfi == Get(latest_values, "mfi", 50)
          current_price == Get(latest_values, "current_price", 0)
          sar == Get(latest_values, "parabolic_sar", 0)
      IN  (IF williams_r < -80 THEN 6 ELSE IF williams_r > -20 THEN -6 ELSE 0)
          + (IF cci < -100 THEN 6 ELSE IF cci > 100 THEN -6 ELSE 0)
          + (IF mfi < 20 THEN 6 ELSE IF mfi > 80 THEN -6 ELSE 0)
          + (IF current_price > sar THEN 5
             ELSE IF current_price < sar THEN -5 ELSE 0)

_analyze_technical_indicators(data, raises) ==
    IF raises THEN NeutralScore
    ELSE
      LET tech_analysis == get_comprehensive_analysis(data, FALSE)
          rsi == Get(tech_analysis, "rsi", 50)
          macd == Get(tech_analysis, "macd", 0)
          macd_signal == Get(tech_analysis, "macd_signal", 0)
          price == Get(tech_analysis, "price", 0)
          sma_10 == Get(tech_analysis, "sma_10", 0)
          sma_20 == Get(tech_analysis, "sma_20", 0)
          bb_upper == Get(tech_analysis, "bb_upper", 0)
          bb_lower == Get(tech_analysis, "bb_lower", 0)
          stoch_k == Get(tech_analysis, "stoch_k", 50)
          stoch_d == Get(tech_analysis, "stoch_d", 50)
      IN  IF DOMAIN tech_analysis = {} THEN NeutralScore
          ELSE ClampScore(
                 NeutralScore
                 + (IF rsi < 30 THEN 15 ELSE IF rsi > 70 THEN -15
                    ELSE IF 40 <= rsi /\ rsi <= 60 THEN 5 ELSE 0)
                 + (IF macd > macd_signal /\ macd > 0 THEN 12
                    ELSE IF macd < macd_signal /\ macd < 0 THEN -12 ELSE 0)
                 + (IF price > sma_10 /\ sma_10 > sma_20 THEN 15
                    ELSE IF price < sma_10 /\ sma_10 < sma_20 THEN -15
                    ELSE IF price > sma_20 THEN 8
                    ELSE IF price < sma_20 THEN -8 ELSE 0)
                 + (IF price < bb_lower THEN 10
                    ELSE IF price > bb_upper THEN -10 ELSE 0)
                 + (IF stoch_k < 20 /\ stoch_d < 20 THEN 8
                    ELSE IF stoch_k > 80 /\ stoch_d > 80 THEN -8
                    ELSE IF stoch_k > stoch_d /\ stoch_k < 80 THEN 5
                    ELSE IF stoch_k < stoch_d /\ stoch_k > 20 THEN -5 ELSE 0)
                 + AdvancedScore(data.advanced))

InitSweep ==
    /\ trades = <<>>
    /\ positions = <<>>
    /\ now = 0
    /\ indicator_weights = DefaultWeights
    /\ updates = 0
    /\ result = NoResult
    /\ max_leverage = DefaultMaxLeverage
    /\ session_state = NoSession
    /\ sqlite_history = NoHistory
    /\ calls = NoCalls
    /\ signal_cache = NoSignals
    /\ market \in SweepMarkets

\* The data of the next call: the RSI has not fallen, every other value is
\* as it was.
NextData(data) ==
    {[data EXCEPT !.indicators.rsi = rsi] :
        rsi \in {r \in RsiSweep : r >= data.indicators.rsi}}

\* IntelligentTrader._calculate_technical_score on the next data.
TraderTechnicalScore ==
    /\ market' \in NextData(market)
    /\ \E raise \in {"none", "technical", "comprehensive"} :
          result' = Result("_calculate_technical_score", TRUE,
                           <<[technical_score |->
                                 _calculate_technical_score(market', raise),
                              raised |-> raise # "none"]>>)
    /\ UNCHANGED <<trades, positions, now, indicator_weights, updates,
                   max_leverage,
                   signal_cache,
                   calls,
                   sqlite_history,
                   session_state>>

\* SignalGenerator._analyze_technical_indicators on the next data.
AnalyzeTechnicalIndicators ==
    /\ market' \in NextData(market)
    /\ \E raises \in BOOLEAN :
          result' = Result("_analyze_technical_indicators", TRUE,
                           <<[technical_score |->
                                 _analyze_technical_indicators(market', raises),
                              raised |-> raises]>>)
    /\ UNCHANGED <<trades, positions, now, indicator_weights, updates,
                   max_leverage,
                   signal_cache,
                   calls,
                   sqlite_history,
                   session_state>>

NextSweep ==
    \/ TraderTechnicalScore
    \/ AnalyzeTechnicalIndicators

SpecSweep == InitSweep /\ [][NextSweep]_vars

(***************************************************************************)
(* SignalGenerator.generate_trading_signal and its cache.  The component   *)
(* scores the four analysers return for the market data are inputs.        *)
(***************************************************************************)
cache_duration == 180
WaitSteps == {89, 91}
MaxWait == (MaxTicks + 1) * cache_duration + 1
CacheSymbols == {"BTCUSDT", "ETHUSDT"}
GenerateRaises == {"none", "analysis", "log"}

MarketData ==
    {[bars |-> 100, components |-> [c \in ComponentSet |-> 80]],
     [bars |-> 100, components |-> [c \in ComponentSet |-> 50]],
     [bars |-> 10, components |-> [c \in ComponentSet |-> 80]]}

\* Any entry of the symbol, whatever its age.
AnyEntry(cache, cache_key, t) == cache_key \in DOMAIN cache

FreshEntry(cache, cache_key, t) ==
    /\ cache_key \in DOMAIN cache
    /\ t - cache[cache_key].timestamp < cache_duration

Signal(symbol, market_data, t) ==
    LET signal == _interpret_signal(final_score(market_data.components),
                                    market_data.components)
    IN  [action |-> signal.action, confidence |-> signal.confidence,
         strength |-> signal.strength, final_score |-> signal.final_score,
         symbol |-> symbol, timestamp |-> t,
         components |-> market_data.components]

CacheSignal(cache, cache_key, signal, t) ==
    [key \in DOMAIN cache \cup {cache_key} |->
        IF key = cache_key THEN [signal |-> signal, timestamp |-> t]
        ELSE cache[key]]

\* raise: the step of a recomputation that raises, if any: an analysis
\* step before the signal is cached, or the logging after it.
generate_trading_signal(cache, symbol, market_data, raise, t) ==
    IF market_data.bars < MinBars
    THEN [signal |-> None, cache |-> cache, raised |-> FALSE]
    ELSE IF FreshEntry(cache, symbol, t)
    THEN [signal |-> Some(cache[symbol].signal), cache |-> cache,
          raised |-> FALSE]
    ELSE IF raise = "analysis"
    THEN [signal |-> None, cache |-> cache, raised |-> TRUE]
    ELSE
      LET signal == Signal(symbol, market_data, t)
          cached == CacheSignal(cache, symbol, signal, t)
      IN  IF raise = "log"
          THEN [signal |-> None, cache |-> cached, raised |-> TRUE]
          ELSE [signal |-> Some(signal), cache |-> cached, raised |-> FALSE]

\* Time passes between two calls.
Wait ==
    /\ \E d \in WaitSteps : now + d <= MaxWait /\ now' = now + d
    /\ UNCHANGED <<trades, positions, indicator_weights, updates, result,
                   max_leverage, market, signal_cache,
                   calls,
                   sqlite_history,
                   session_state>>

GenerateTradingSignal ==
    /\ \E symbol \in CacheSymbols, market_data \in MarketData,
          raise \in GenerateRaises :
          LET call == generate_trading_signal(signal_cache, symbol,
                                              market_data, raise, now)
          IN  /\ signal_cache' = call.cache
              /\ result' = Result("generate_trading_signal",
                                  call.signal # None,
                                  <<[symbol |-> symbol,
                                     bars |-> market_data.bars,
                                     raised |-> call.raised,
                                     signal |-> call.signal]>>)
    /\ UNCHANGED <<trades, positions, now, indicator_weights, updates,
                   max_leverage, market,
                   calls,
                   sqlite_history,
                   session_state>>

ClearCache ==
    /\ signal_cache' = NoSignals
    /\ result' = Result("clear_cache", TRUE, <<>>)
    /\ UNCHANGED <<trades, positions, now, indicator_weights, updates,
                   max_leverage, market,
                   calls,
                   sqlite_history,
                   session_state>>

NextCache ==
    \/ Wait
    \/ GenerateTradingSignal
    \/ ClearCache

SpecCache == Init /\ [][NextCache]_vars

(***************************************************************************)
(* The trading parameters of the settings page.  Of the parameters          *)
(* save_trading_parameters writes, the model carries max_leverage and the  *)
(* indicator weights as state; the others keep their defaults.             *)
(***************************************************************************)
\* The slider runs from 1.0 to 10.0.
MaxLeverages == {1, 2, 3, 5, 10}
LeverageConfidences == {79, 80, 84, 85}
SettingsSymbols == {"BTCUSDT"}
\* Four sliders from 0.1 to 0.6; a sum other than 1 only draws a warning.
SliderWeights == {DefaultWeights, [c \in CategorySet |-> Frac(6, 10)]}

SaveTradingParameters ==
    /\ max_leverage' \in MaxLeverages
    /\ indicator_weights' \in SliderWeights
    /\ result' = Result("save_trading_parameters", TRUE, <<>>)
    /\ UNCHANGED <<trades, positions, now, updates, market,
                   signal_cache,
                   calls,
                   sqlite_history,
                   session_state>>

ExecuteConfiguredTrade ==
    ExecuteTradeUpTo(MaxTrades, SettingsSymbols, LeverageConfidences)

NextSettings ==
    \/ SaveTradingParameters
    \/ ExecuteConfiguredTrade

SpecSettings == Init /\ [][NextSettings]_vars

(***************************************************************************)
(* Batch scans: IntelligentTrader.scan_for_opportunities and               *)
(* SignalGenerator.batch_generate_signals.  The market of a scan holds,    *)
(* for each listed symbol, what the analysis of that symbol comes to.      *)
(***************************************************************************)
GeneratorThreshold == 65
TopOpportunities == 10
\* The symbols in the order the exchange lists them.
ScanOrder == <<"BTCUSDT", "ETHUSDT", "BNBUSDT">>

\* The analysis of one symbol raises, is unavailable (None), or is a signal.
ScanOutcome(status, action, confidence) ==
    [status |-> status, action |-> action, confidence |-> confidence]
ScanOutcomes ==
    {ScanOutcome("exception", "HOLD", Frac(0, 1)),
     ScanOutcome("unavailable", "HOLD", Frac(0, 1)),
     ScanOutcome("ok", "BUY", Frac(88, 1)), ScanOutcome("ok", "BUY", Frac(72, 1)),
     ScanOutcome("ok", "HOLD", Frac(55, 1)),
     ScanOutcome("ok", "SELL", Frac(88, 1))}
ScanMarkets == {[signals |-> signals] : signals \in [Symbols -> ScanOutcomes]}

Opportunity(symbol, outcome) ==
    [symbol |-> symbol, action |-> outcome.action,
     confidence |-> outcome.confidence]

\* The loop without the comparison with the threshold.
RECURSIVE CollectUnfiltered(_, _, _, _)
CollectUnfiltered(order, signals, threshold, i) ==
    IF i > Len(order) THEN <<>>
    ELSE
      LET outcome == signals[order[i]]
          rest == CollectUnfiltered(order, signals, threshold, i + 1)
      IN  IF outcome.status = "ok"
          THEN <<Opportunity(order[i], outcome)>> \o rest
          ELSE rest

\* The loop over the symbols from the i-th on: a symbol whose analysis
\* raises or is None is passed over, one below the threshold is dropped.
RECURSIVE Collect(_, _, _, _)
Collect(order, signals, threshold, i) ==
    IF i > Len(order) THEN <<>>
    ELSE
      LET outcome == signals[order[i]]
          rest == Collect(order, signals, threshold, i + 1)
      IN  IF /\ outcome.status = "ok"
             /\ FracLeq(Frac(threshold, 1), outcome.confidence)
          THEN <<Opportunity(order[i], outcome)>> \o rest
          ELSE rest

\* list.sort(key=confidence, reverse=True): stable, highest first.
RECURSIVE InsertByConfidence(_, _)
InsertByConfidence(sorted, item) ==
    IF sorted = <<>> THEN <<item>>
    ELSE IF FracLeq(item.confidence, Head(sorted).confidence)
         THEN <<Head(sorted)>> \o InsertByConfidence(Tail(sorted), item)
         ELSE <<item>> \o sorted

RECURSIVE SortByConfidence(_)
SortByConfidence(items) ==
    IF items = <<>> THEN <<>>
    ELSE InsertByConfidence(SortByConfidence(SubSeq(items, 1, Len(items) - 1)),
                            items[Len(items)])

Take(items, n) == SubSeq(items, 1, Min(n, Len(items)))

scan_for_opportunities(order, signals) ==
    Take(SortByConfidence(
             Collect(order, signals, min_confidence_threshold, 1)),
         TopOpportunities)

batch_generate_signals(signals) ==
    SortByConfidence(Collect(ScanOrder, signals, GeneratorThreshold, 1))

InitScan ==
    /\ trades = <<>>
    /\ positions = <<>>
    /\ now = 0
    /\ indicator_weights = DefaultWeights
    /\ updates = 0
    /\ result = NoResult
    /\ max_leverage = DefaultMaxLeverage
    /\ session_state = NoSession
    /\ sqlite_history = NoHistory
    /\ calls = NoCalls
    /\ signal_cache = NoSignals
    /\ market \in ScanMarkets

ScanForOpportunities ==
    /\ result' = Result("scan_for_opportunities", TRUE,
                        scan_for_opportunities(ScanOrder, market.signals))
    /\ UNCHANGED <<trades, positions, now, indicator_weights, updates,
                   max_leverage, market,
                   signal_cache,
                   calls,
                   sqlite_history,
                   session_state>>

BatchGenerateSignals ==
    /\ result' = Result("batch_generate_signals", TRUE,
                        batch_generate_signals(market.signals))
    /\ UNCHANGED <<trades, positions, now, indicator_weights, updates,
                   max_leverage, market,
                   signal_cache,
                   calls,
                   sqlite_history,
                   session_state>>

NextScan ==
    \/ ScanForOpportunities
    \/ BatchGenerateSignals

SpecScan == InitScan /\ [][NextScan]_vars

(***************************************************************************)
(* scan_for_opportunities over the analyses analyze_symbol composes: each  *)
(* symbol of the scan has the four category scores of its analysis, or its *)
(* analysis raises or is unavailable.                                      *)
(***************************************************************************)
OpportunityOrder ==
    <<"BTCUSDT", "ETHUSDT", "BNBUSDT", "SOLUSDT", "XRPUSDT", "ADAUSDT",
      "DOGEUSDT", "DOTUSDT", "LTCUSDT", "TRXUSDT", "AVAXUSDT">>
LeadingSymbols == {"BTCUSDT", "ETHUSDT"}
OpportunitySymbols == {OpportunityOrder[i] : i \in 1..Len(OpportunityOrder)}

Scored(t, f, s, m) ==
    [status |-> "ok",
     scores |-> [c \in CategorySet |->
                    CASE c = "technical" -> t
                      [] c = "fundamental" -> f
                      [] c = "sentiment" -> s
                      [] c = "momentum" -> m]]
LeadingAnalyses ==
    {[status |-> "exception"], [status |-> "unavailable"],
     Scored(80, 80, 80, 80), Scored(80, 80, 80, 50), Scored(100, 100, 100, 20),
     Scored(50, 50, 50, 50), Scored(20, 20, 20, 20)}
OtherAnalyses == {Scored(80, 80, 80, 80), Scored(50, 50, 50, 50)}

OpportunityMarkets ==
    {[analyses |-> [symbol \in OpportunitySymbols |->
                       IF symbol \in LeadingSymbols THEN leading[symbol]
                       ELSE other[symbol]]] :
        leading \in [LeadingSymbols -> LeadingAnalyses],
        other \in [OpportunitySymbols \ LeadingSymbols -> OtherAnalyses]}

\* What analyze_symbol gives the scan for one symbol.
AnalysisOutcome(analysis, w) ==
    IF analysis.status # "ok"
    THEN ScanOutcome(analysis.status, "HOLD", Frac(0, 1))
    ELSE LET signal == SymbolAnalysis(analysis.scores, w)
         IN  ScanOutcome("ok", signal.action, signal.confidence)

InitOpportunities ==
    /\ trades = <<>>
    /\ positions = <<>>
    /\ now = 0
    /\ indicator_weights = DefaultWeights
    /\ updates = 0
    /\ result = NoResult
    /\ max_leverage = DefaultMaxLeverage
    /\ session_state = NoSession
    /\ sqlite_history = NoHistory
    /\ calls = NoCalls
    /\ signal_cache = NoSignals
    /\ market \in OpportunityMarkets

ScanAnalysedSymbols ==
    /\ result' = Result("scan_for_opportunities", TRUE,
                        scan_for_opportunities(
                            OpportunityOrder,
                            [symbol \in OpportunitySymbols |->
                                AnalysisOutcome(market.analyses[symbol],
                                                indicator_weights)]))
    /\ UNCHANGED <<trades, positions, now, indicator_weights, updates,
                   max_leverage, market, signal_cache, calls,
                   sqlite_history,
                   session_state>>

NextOpportunities == ScanAnalysedSymbols

SpecOpportunities == InitOpportunities /\ [][NextOpportunities]_vars

(***************************************************************************)
(* Signals executed from the trading panel: execute_trade_from_signal      *)
(* hands the action of the signal, whatever it is, to execute_trade.       *)
(***************************************************************************)
ExecuteTradeFromSignal ==
    /\ Len(trades) < MaxTrades
    /\ \E symbol \in LifecycleSymbols, action \in SignalActions,
          confidence \in Confidences, env \in ExecuteEnvs :
          LET out == execute_trade(trades, positions, symbol, action, confidence,
                                   env.ticker, env.account, env.order_error,
                                   env.raise, now)
          IN  /\ trades' = out.trades
              /\ positions' = out.positions
              /\ result' = out.result
    /\ UNCHANGED <<now, indicator_weights, updates, max_leverage, market,
                   signal_cache,
                   calls,
                   sqlite_history,
                   session_state>>

NextSignals == ExecuteTradeFromSignal

SpecSignals == Init /\ [][NextSignals]_vars

(***************************************************************************)
(* The life of the trades of one symbol: opened, priced, aged, closed by   *)
(* a management pass or from the panel.                                    *)
(***************************************************************************)
ExecuteOneSymbol ==
    ExecuteTradeUpTo(MaxTrades, SettingsSymbols, LifecycleConfidences)

NextExits ==
    \/ Tick
    \/ ExecuteOneSymbol
    \/ ManagePositions
    \/ ClosePosition
    \/ UpdatePositionPrices

SpecExits == Init /\ [][NextExits]_vars

(***************************************************************************)
(* execute_trade run by two workers at once.  A worker is between two     *)
(* steps where the call reads or writes the trading history: the check of  *)
(* the position slots, the requests to the exchange, the recording of the  *)
(* trade.  The host hands each symbol of a scan to one worker, with a BUY  *)
(* signal.                                                                 *)
(***************************************************************************)
RaceSymbols == {"BTCUSDT", "ETHUSDT", "BNBUSDT", "SOLUSDT"}

InFlight == {th \in Threads : calls[th].pc # "idle"}
HandledSymbols ==
    {trades[i].symbol : i \in 1..Len(trades)}
    \cup {calls[th].symbol : th \in InFlight}

\* open_positions = len(get_current_positions()); the slot check.
CheckSlots(th) ==
    /\ calls[th].pc = "idle"
    /\ Len(trades) + Cardinality(InFlight) < MaxOpenings
    /\ \E symbol \in RaceSymbols \ HandledSymbols,
          confidence \in LifecycleConfidences :
          IF Len(positions) >= max_positions
          THEN /\ result' = Failure("max_positions")
               /\ calls' = calls
          ELSE /\ calls' = [calls EXCEPT ![th] =
                               [pc |-> "checked", symbol |-> symbol,
                                action |-> "BUY", confidence |-> confidence]]
               /\ result' = result
    /\ UNCHANGED <<trades, positions, now, indicator_weights, updates,
                   max_leverage, market, signal_cache,
                   sqlite_history,
                   session_state>>

\* get_ticker_price, get_account_info and place_order.
RequestOrder(th) ==
    /\ calls[th].pc = "checked"
    /\ \E env \in ExecuteEnvs :
          LET current_price == env.ticker.price
              failed ==
                  \/ env.ticker.error
                  \/ env.raise = "price"
                  \/ current_price <= 0
                  \/ env.account.error
                  \/ env.account.usdt < MinBalance
                  \/ env.order_error
          IN  IF failed
              THEN /\ calls' = [calls EXCEPT ![th] = Idle]
                   /\ result' = Failure("exchange")
              ELSE /\ calls' = [calls EXCEPT ![th] =
                                   [pc |-> "ordered",
                                    symbol |-> calls[th].symbol,
                                    action |-> calls[th].action,
                                    confidence |-> calls[th].confidence,
                                    current_price |-> current_price,
                                    quantity |->
                                        Quantity(env.account.usdt,
                                                 Leverage(calls[th].confidence),
                                                 current_price),
                                    raise |-> env.raise]]
                   /\ result' = result
    /\ UNCHANGED <<trades, positions, now, indicator_weights, updates,
                   max_leverage, market, signal_cache,
                   sqlite_history,
                   session_state>>

\* trading_history.add_trade, the notification and the return.
RecordTrade(th) ==
    /\ calls[th].pc = "ordered"
    /\ LET call == calls[th]
           recorded == add_trade(trades, positions, call.symbol, call.action,
                                 call.current_price, call.quantity,
                                 call.confidence, demo_mode, now)
       IN  /\ trades' = recorded.trades
           /\ positions' = recorded.positions
           /\ result' = IF call.raise = "notify" THEN Failure("exception")
                        ELSE Success(Leverage(call.confidence))
    /\ calls' = [calls EXCEPT ![th] = Idle]
    /\ UNCHANGED <<now, indicator_weights, updates, max_leverage, market,
                   signal_cache,
                   sqlite_history,
                   session_state>>

NextRace ==
    \E th \in Threads :
        \/ CheckSlots(th)
        \/ RequestOrder(th)
        \/ RecordTrade(th)

SpecRace == Init /\ [][NextRace]_vars

(***************************************************************************)
(* The TradingHistory backed by SQLite.  Prices and quantities are whole   *)
(* numbers, the averaged entry price and the profit figures exact          *)
(* fractions.  The database accepts every statement.                       *)
(***************************************************************************)
SqlSymbols == <<"BTCUSDT", "ETHUSDT">>
SqlQuantities == {1, 2}
SqlPrices == {100, 116}

Put(rows, key, row) ==
    [k \in DOMAIN rows \cup {key} |-> IF k = key THEN row ELSE rows[k]]
Delete(rows, key) == [k \in DOMAIN rows \ {key} |-> rows[k]]
FracSub(a, b) == FracAdd(a, <<-b[1], b[2]>>)

\* Position.update_pnl
update_pnl(position) ==
    LET unrealized_pnl ==
            IF position.position_type = "LONG"
            THEN FracMul(FracSub(Frac(position.current_price, 1),
                                 position.entry_price),
                         Frac(position.quantity, 1))
            ELSE FracMul(FracSub(position.entry_price,
                                 Frac(position.current_price, 1)),
                         Frac(position.quantity, 1))
    IN  [position EXCEPT
            !.unrealized_pnl = unrealized_pnl,
            !.unrealized_pnl_pct =
                IF FracLess(Frac(0, 1), position.entry_price)
                THEN FracMul(FracDiv(unrealized_pnl,
                                     FracMul(position.entry_price,
                                             Frac(position.quantity, 1))),
                             Frac(100, 1))
                ELSE @]

SqlPosition(symbol, position_type, entry_price, current_price, quantity, t) ==
    update_pnl([symbol |-> symbol, position_type |-> position_type,
                entry_price |-> entry_price, current_price |-> current_price,
                quantity |-> quantity, entry_time |-> t,
                unrealized_pnl |-> Frac(0, 1),
                unrealized_pnl_pct |-> Frac(0, 1)])

\* INSERT OR REPLACE INTO positions, every column.
_add_position(h, symbol, position) ==
    [h EXCEPT !.positions = Put(@, symbol, position),
              !.positions_table = Put(@, symbol, position)]

\* UPDATE positions SET current_price, quantity, unrealized_pnl,
\* unrealized_pnl_pct WHERE symbol.
_update_position(h, symbol, position) ==
    [h EXCEPT
        !.positions = Put(@, symbol, position),
        !.positions_table =
            IF symbol \in DOMAIN @
            THEN [@ EXCEPT ![symbol] =
                     [@ EXCEPT !.current_price = position.current_price,
                               !.quantity = position.quantity,
                               !.unrealized_pnl = position.unrealized_pnl,
                               !.unrealized_pnl_pct =
                                   position.unrealized_pnl_pct]]
            ELSE @]

sql_close_position(h, symbol) ==
    [h EXCEPT !.positions = Delete(@, symbol),
              !.positions_table = Delete(@, symbol)]

sql_add_trade(h, symbol, trade_type, quantity, price, t) ==
    LET held == symbol \in DOMAIN h.positions
        position == h.positions[symbol]
        pnl == IF held /\ trade_type = "SELL"
               THEN FracMul(FracSub(Frac(price, 1), position.entry_price),
                            Frac(Min(quantity, position.quantity), 1))
               ELSE Frac(0, 1)
        total_value == FracAdd(FracMul(position.entry_price,
                                       Frac(position.quantity, 1)),
                               Frac(price * quantity, 1))
        total_quantity == position.quantity + quantity
        after ==
            IF held /\ trade_type = "SELL"
            THEN IF quantity >= position.quantity
                 THEN sql_close_position(h, symbol)
                 ELSE _update_position(
                          h, symbol,
                          [position EXCEPT !.quantity = @ - quantity])
            ELSE IF trade_type = "BUY"
            THEN IF held
                 THEN _update_position(
                          h, symbol,
                          [position EXCEPT
                              !.entry_price =
                                  FracDiv(total_value, Frac(total_quantity, 1)),
                              !.quantity = total_quantity,
                              !.current_price = price])
                 ELSE _add_position(
                          h, symbol,
                          SqlPosition(symbol, "LONG", Frac(price, 1), price,
                                      quantity, t))
            ELSE h
    IN  [after EXCEPT !.trades_table =
            Append(@, [id |-> Len(@) + 1, symbol |-> symbol,
                       trade_type |-> trade_type, quantity |-> quantity,
                       price |-> price, timestamp |-> t, pnl |-> pnl,
                       fee |-> Frac(price * quantity, 1000)])]

RECURSIVE UpdatePricesFrom(_, _, _)
UpdatePricesFrom(h, price_updates, i) ==
    IF i > Len(SqlSymbols) THEN h
    ELSE
      LET symbol == SqlSymbols[i]
      IN  IF symbol \in DOMAIN price_updates /\ symbol \in DOMAIN h.positions
          THEN UpdatePricesFrom(
                   _update_position(
                       h, symbol,
                       update_pnl([h.positions[symbol] EXCEPT
                                      !.current_price = price_updates[symbol]])),
                   price_updates, i + 1)
          ELSE UpdatePricesFrom(h, price_updates, i + 1)

sql_update_position_prices(h, price_updates) ==
    UpdatePricesFrom(h, price_updates, 1)

\* SELECT * FROM positions: a Position is built from every row (its profit
\* figures recomputed) and put into the in-memory positions.
RECURSIVE LoadFrom(_, _, _)
LoadFrom(h, loaded, i) ==
    IF i > Len(SqlSymbols) THEN [history |-> h, positions |-> loaded]
    ELSE
      LET symbol == SqlSymbols[i]
      IN  IF symbol \in DOMAIN h.positions_table
          THEN LET position == update_pnl(h.positions_table[symbol])
               IN  LoadFrom([h EXCEPT !.positions = Put(@, symbol, position)],
                            Append(loaded, position), i + 1)
          ELSE LoadFrom(h, loaded, i + 1)

get_current_positions(h) == LoadFrom(h, <<>>, 1)

SqlAddTrade ==
    /\ Len(sqlite_history.trades_table) < MaxTrades
    /\ \E i \in 1..Len(SqlSymbols), trade_type \in TradeActions,
          quantity \in SqlQuantities, price \in SqlPrices :
          sqlite_history' = sql_add_trade(sqlite_history, SqlSymbols[i],
                                          trade_type, quantity, price, now)
    /\ result' = Result("add_trade", TRUE, <<>>)
    /\ UNCHANGED <<trades, positions, now, indicator_weights, updates,
                   max_leverage, market, signal_cache, calls,
                   session_state>>

SqlUpdatePositionPrices ==
    /\ \E S \in SUBSET DOMAIN sqlite_history.positions :
       \E price_updates \in [S -> SqlPrices] :
          sqlite_history' =
              sql_update_position_prices(sqlite_history, price_updates)
    /\ result' = Result("update_position_prices", TRUE, <<>>)
    /\ UNCHANGED <<trades, positions, now, indicator_weights, updates,
                   max_leverage, market, signal_cache, calls,
                   session_state>>

GetCurrentPositions ==
    /\ LET loaded == get_current_positions(sqlite_history)
       IN  /\ sqlite_history' = loaded.history
           /\ result' = Result("get_current_positions", TRUE, loaded.positions)
    /\ UNCHANGED <<trades, positions, now, indicator_weights, updates,
                   max_leverage, market, signal_cache, calls,
                   session_state>>

NextSqlite ==
    \/ SqlAddTrade
    \/ SqlUpdatePositionPrices
    \/ GetCurrentPositions

SpecSqlite == Init /\ [][NextSqlite]_vars

(***************************************************************************)
(* The live trading page.  Every run of the page is one click: on the      *)
(* risk warning until the risks are accepted, on one of the four control   *)
(* buttons afterwards.  The API keys are set and the exchange answers.     *)
(***************************************************************************)
Buttons == {"start", "stop", "emergency_stop", "refresh"}
RefreshBack == 600

show_live_controls(session, button, t) ==
    IF button = "start"
    THEN IF ~session.live_auto_trading
         THEN IF session.trading_confirmed
              THEN [session EXCEPT !.live_auto_trading = TRUE]
              ELSE [session EXCEPT !.trading_confirmed = TRUE]
         ELSE session
    ELSE IF button = "stop"
    THEN IF session.live_auto_trading
         THEN [session EXCEPT !.live_auto_trading = FALSE,
                              !.trading_confirmed = FALSE]
         ELSE session
    ELSE IF button = "emergency_stop"
    THEN [session EXCEPT !.live_auto_trading = FALSE,
                         !.trading_confirmed = FALSE]
    ELSE [session EXCEPT !.live_data_last_update = t - RefreshBack]

AcceptRisks ==
    /\ ~session_state.risks_accepted
    /\ session_state' = [session_state EXCEPT !.risks_accepted = TRUE]
    /\ result' = Result("accept_risks", TRUE, <<>>)
    /\ UNCHANGED <<trades, positions, now, indicator_weights, updates,
                   max_leverage, market, signal_cache, calls, sqlite_history>>

ShowLiveControls ==
    /\ session_state.risks_accepted
    /\ \E button \in Buttons :
          /\ session_state' = show_live_controls(session_state, button, now)
          /\ result' = Result(button, session_state'.live_auto_trading, <<>>)
    /\ UNCHANGED <<trades, positions, now, indicator_weights, updates,
                   max_leverage, market, signal_cache, calls, sqlite_history>>

NextLive ==
    \/ Wait
    \/ AcceptRisks
    \/ ShowLiveControls

SpecLive == Init /\ [][NextLive]_vars

(***************************************************************************)
(* Properties.                                                             *)
(***************************************************************************)
OpenTrades == {i \in 1..Len(trades) : trades[i].status = "OPEN"}
OpenTradesOf(symbol) == {i \in OpenTrades : trades[i].symbol = symbol}
PositionsOf(symbol) == {i \in 1..Len(positions) : positions[i].symbol = symbol}
NoErrors(results) == \A j \in 1..Len(results) : results[j].action # "error"
ClosedIn(results, symbol) ==
    \E j \in 1..Len(results) :
        results[j].symbol = symbol /\ results[j].action = "closed"
SomeClosed(results) == \E j \in 1..Len(results) : results[j].action = "closed"

\* C1: the number of trades with status OPEN never exceeds max_positions,
\* whether the trades were opened by BUY or by SELL signals.
C1_OpenTradesWithinLimit == Cardinality(OpenTrades) <= max_positions

\* C2: a symbol never has two OPEN trades nor two positions, a second
\* execute_trade for a symbol with an OPEN trade being rejected.
C2_OneOpenTradePerSymbol ==
    \A symbol \in Symbols :
        /\ Cardinality(OpenTradesOf(symbol)) <= 1
        /\ Cardinality(PositionsOf(symbol)) <= 1

\* C3: an execute_trade call that returns success=False leaves the trades
\* and the positions as they were before the call.
C3_FailureLeavesHistory ==
    [][(Openings /\ ~result'.success) => UNCHANGED <<trades, positions,
                   signal_cache,
                   calls,
                   sqlite_history,
                   session_state>>]_vars

\* C4: no trade is recorded whose confidence is below
\* min_confidence_threshold.
C4_NoTradeBelowThreshold ==
    \A i \in 1..Len(trades) : trades[i].confidence >= min_confidence_threshold

\* C5: a position exists for a symbol exactly when an OPEN trade exists for
\* it, and it is LONG for a BUY trade and SHORT for a SELL trade.
C5_PositionIffOpenTrade ==
    \A symbol \in Symbols :
        /\ (PositionsOf(symbol) # {}) <=> (OpenTradesOf(symbol) # {})
        /\ \A i \in PositionsOf(symbol), j \in OpenTradesOf(symbol) :
               positions[i].side =
                   (IF trades[j].action = "BUY" THEN "LONG" ELSE "SHORT")

\* C6: a position whose profit or loss at the live price is above +15% or
\* below -8% is closed by the next manage_positions pass (a pass in which
\* no closing order fails).
CrossesExit(position, price) ==
    LET pnl == UnrealizedPnlPct(position.side, position.entry_price, price,
                                position.quantity)
    IN  pnl > TakeProfitBp \/ pnl < StopLossBp

C6_ExitAtLivePrice ==
    [][\A live \in [PositionSymbols(positions) -> Prices] :
          (ManagePositionsAt(live) /\ NoErrors(result'.results))
          => \A i \in 1..Len(positions) :
                 CrossesExit(positions[i], live[positions[i].symbol])
                 => ClosedIn(result'.results, positions[i].symbol)]_vars

\* C7: every OPEN trade, BUY or SELL, older than max_hold_time_hours is
\* CLOSED after a manage_positions pass in which no closing order fails.
C7_AgedTradesClosed ==
    [][(ManagePositions /\ NoErrors(result'.results))
       => \A i \in OpenTrades :
              now - trades[i].entry_time > MaxHoldSeconds
              => trades'[i].status = "CLOSED"]_vars

\* C8: when _close_position has closed a trade, the indicator weights
\* differ from the weights before the close.
C8_CloseAdjustsWeights ==
    [][((ManagePositions \/ ClosePosition) /\ SomeClosed(result'.results))
       => indicator_weights' # indicator_weights]_vars

\* C9: after every update_ai_weights call the four weights sum to 1.0
\* within 1e-6.
Tolerance == Frac(1, 1000000)
FracAbsDiff(a, b) == IF FracLess(a, b) THEN FracAdd(b, <<-a[1], a[2]>>)
                     ELSE FracAdd(a, <<-b[1], b[2]>>)
C9_WeightsSumToOne ==
    ~FracLess(Tolerance, FracAbsDiff(WeightSum(indicator_weights), Frac(1, 1)))

C9_Witness == updates > 0 /\ indicator_weights # DefaultWeights

\* C10: close_trade for the id of a trade that is already CLOSED, or for an
\* unknown id, returns False and leaves that trade and the positions
\* unchanged; a CLOSED trade never becomes OPEN again, and a new trade on
\* the symbol is appended as a fresh record.
C10_ClosedStaysClosed ==
    [][/\ \A i \in 1..Len(trades), exit_price \in Prices :
            (trades[i].status = "CLOSED"
             /\ CloseTrade(trades[i].trade_id, exit_price))
            => (~result'.success /\ positions' = positions
                /\ trades'[i] = trades[i])
       /\ \A exit_price \in Prices :
            CloseTrade(UnknownId, exit_price)
            => (~result'.success /\ positions' = positions /\ trades' = trades)
       /\ AddTrade
            => \A i \in 1..Len(trades) : trades'[i] = trades[i]]_vars

ComposedSignal == result.results[1]
Composed == result.op = "_interpret_analysis_score"

Analysed == result.op = "analyze_symbol" /\ result.success
ScoreInRange(score) == 0 <= score /\ score <= 100

C14_ShortSeriesIsNeutral ==
    (/\ result.op = "_calculate_technical_score"
     /\ market.bars < 50
     /\ result.results[1].raise = "none")
        => result.results[1].technical_score = 50

\* C15: when get_ticker_price answers _close_position with an error, the
\* trade is not closed (at exit price 0): it stays OPEN together with its
\* position.
C15_PriceErrorKeepsTradeOpen ==
    [][\A i \in 1..Len(positions), order_error \in BOOLEAN :
          ClosePositionWith(i, TickerError, order_error)
          => UNCHANGED <<trades, positions,
                   signal_cache,
                   calls,
                   sqlite_history,
                   session_state>>]_vars

\* C16: the leverage execute_trade applies is 1 for a confidence below 80,
\* 2 for a confidence in [80, 85) and at most 3 from 85 on, and it never
\* exceeds the configured max_leverage.
C16_LeverageTiers ==
    (result.op = "execute_trade" /\ result.success) =>
        LET confidence == trades[Len(trades)].confidence
            leverage == result.results[1].leverage
        IN  /\ confidence < 80 => leverage = 1
            /\ (80 <= confidence /\ confidence < 85) => leverage = 2
            /\ confidence >= 85 => leverage <= 3
            /\ leverage <= max_leverage

Scanned == result.op \in {"scan_for_opportunities", "batch_generate_signals"}
ScanOf(op, signals) ==
    IF op = "scan_for_opportunities"
    THEN scan_for_opportunities(ScanOrder, signals)
    ELSE batch_generate_signals(signals)
ScanThreshold(op) ==
    IF op = "scan_for_opportunities" THEN min_confidence_threshold
    ELSE GeneratorThreshold
FailedSymbols(signals) ==
    {symbol \in Symbols : signals[symbol].status # "ok"}

\* C17: a symbol whose analysis raises or is unavailable does not abort a
\* scan: every other symbol that qualifies is returned, and the result of
\* the scan tells how many symbols were skipped or failed (two scans with
\* different numbers of failed symbols never return the same result).
C17_ScanReportsFailures ==
    Scanned =>
        /\ \A symbol \in Symbols :
              (/\ market.signals[symbol].status = "ok"
               /\ FracLeq(Frac(ScanThreshold(result.op), 1),
                          market.signals[symbol].confidence))
              => \E j \in 1..Len(result.results) :
                     result.results[j].symbol = symbol
        /\ \A other \in ScanMarkets :
              ScanOf(result.op, other.signals) = result.results
              => Cardinality(FailedSymbols(other.signals))
                     = Cardinality(FailedSymbols(market.signals))

\* C18: a trade (and a position) is recorded only for a BUY or a SELL
\* signal: execute_trade called with the action HOLD records no
\* TradeRecord.
C18_NoTradeForHold ==
    \A i \in 1..Len(trades) : trades[i].action \in {"BUY", "SELL"}

PositionOf(symbol) == positions[CHOOSE i \in PositionsOf(symbol) : TRUE]
\* A step of manage_positions: the only step that leaves a result of
\* manage_positions without moving the clock.
ManagementPass == result'.op = "manage_positions" /\ now' = now
\* The reason the exit rules give for a position, taken in the order
\* time, take-profit, stop-loss, signal reversal.
FirstMatchingReasons(position) ==
    IF now - position.entry_time > 168 * 3600 THEN {"max_hold_time"}
    ELSE IF position.unrealized_pnl_pct > 1500 THEN {"take_profit"}
    ELSE IF position.unrealized_pnl_pct < -800 THEN {"stop_loss"}
    ELSE {"sell_signal", "buy_signal"}

\* C19: the exit rules are evaluated in the order time, take-profit,
\* stop-loss, signal reversal and the first that matches gives the reason
\* of the close: a position that is both too old and beyond a profit or
\* loss threshold is closed for its age, and no signal of a re-analysis
\* decides a close once an earlier rule has matched.
C19_FirstExitRuleWins ==
    [][ManagementPass
       => \A j \in 1..Len(result'.results) :
              result'.results[j].action = "closed"
              => result'.results[j].reason
                     \in FirstMatchingReasons(
                             PositionOf(result'.results[j].symbol))]_vars

\* A pass that closed for its age a trade whose price had also risen
\* beyond the take-profit threshold.
C19_Witness ==
    /\ result.op = "manage_positions"
    /\ \E j \in 1..Len(result.results) :
          /\ result.results[j].action = "closed"
          /\ result.results[j].reason = "max_hold_time"
          /\ result.results[j].profit_pct > 1500

\* A step that closes trades through _close_position: a management pass or
\* a close from the panel.
ClosingStep ==
    result'.op \in {"manage_positions", "_close_position"} /\ now' = now

\* C20: on close the realised profit_pct is (exit - entry)/entry * 100 for
\* a BUY trade and (entry - exit)/entry * 100 for a SELL trade, and the
\* profit_pct _close_position returns is the one close_trade stored on the
\* trade record.
C20_ProfitFormulasAgree ==
    [][ClosingStep
       => \A i \in 1..Len(trades) :
              (trades[i].status = "OPEN" /\ trades'[i].status = "CLOSED")
              => LET entry == trades'[i].entry_price
                     exit == trades'[i].exit_price[1]
                 IN  /\ trades'[i].profit_pct =
                            Some(IF trades'[i].action = "BUY"
                                 THEN ((exit - entry) * 10000) \div entry
                                 ELSE ((entry - exit) * 10000) \div entry)
                     /\ \E j \in 1..Len(result'.results) :
                            /\ result'.results[j].symbol = trades'[i].symbol
                            /\ result'.results[j].action = "closed"
                            /\ Some(result'.results[j].profit_pct)
                                   = trades'[i].profit_pct]_vars

\* A SELL trade entered at 100 and closed at 91: +9% on the record and in
\* the result of the close.
C20_Witness ==
    /\ result.op \in {"manage_positions", "_close_position"}
    /\ \E i \in 1..Len(trades), j \in 1..Len(result.results) :
          /\ trades[i].status = "CLOSED"
          /\ trades[i].action = "SELL"
          /\ trades[i].exit_time = Some(now)
          /\ trades[i].profit_pct = Some(900)
          /\ result.results[j].action = "closed"
          /\ result.results[j].symbol = trades[i].symbol
          /\ result.results[j].profit_pct = 900
(***************************************************************************)
(* Weight adaptation over a run of trades.                                 *)
(***************************************************************************)
\* a < b for two positive fractions, by their continued fractions (no
\* product of the two denominators is formed).
RECURSIVE WeightLess(_, _)
WeightLess(a, b) ==
    LET qa == a[1] \div a[2]
        qb == b[1] \div b[2]
        ra == a[1] % a[2]
        rb == b[1] % b[2]
    IN  IF qa # qb THEN qa < qb
        ELSE IF rb = 0 THEN FALSE
        ELSE IF ra = 0 THEN TRUE
        ELSE WeightLess(<<b[2], rb>>, <<a[2], ra>>)

WeightsUpdated == result'.op = "update_ai_weights" /\ updates' = updates + 1

\* C21: after update_ai_weights with performance > 0 the renormalized
\* weight of the highest-scoring category is not lower than before the
\* call, and with performance <= 0 it is not higher than before the call.
C21_StrongestWeightFollowsResult ==
    [][WeightsUpdated =>
        LET call == result'.results[1]
            before == indicator_weights[call.strongest_factor]
            after == indicator_weights'[call.strongest_factor]
        IN  IF call.performance > 0 THEN ~WeightLess(after, before)
            ELSE ~WeightLess(before, after)]_vars

\* C22: after any sequence of update_ai_weights calls from the default
\* weights, each of the four stored weights lies in [0.1, 0.6].
C22_WeightsWithinLimits ==
    \A c \in CategorySet :
        /\ ~FracLess(indicator_weights[c], MinWeight)
        /\ ~FracLess(MaxWeight, indicator_weights[c])

(***************************************************************************)
(* Confidence of a composed signal.                                        *)
(***************************************************************************)
SignalInterpreted == result.op = "_interpret_signal"
ComposedFinalScore ==
    IF Composed THEN ComposedSignal.total_score ELSE ComposedSignal.final_score
ComposedDispersion ==
    IF Composed THEN Dispersion(market.scores)
    ELSE SignalDispersion(market.components)

\* C23: confidence starts at final_score for BUY, 100 - final_score for
\* SELL and 50 for HOLD; it is multiplied by 0.8 when the standard deviation
\* of the four scores is above 20, by 1.1 when it is below 10, and left
\* unscaled otherwise, and then clamped to [0, 95].
C23_ConfidenceScaling ==
    (Composed \/ SignalInterpreted) =>
        LET start ==
                IF ComposedSignal.action = "BUY" THEN ComposedFinalScore
                ELSE IF ComposedSignal.action = "SELL"
                THEN FracAdd(Frac(100, 1),
                             <<-ComposedFinalScore[1], ComposedFinalScore[2]>>)
                ELSE Frac(50, 1)
            scaled ==
                IF ComposedDispersion > 16 * 20 * 20
                THEN FracMul(start, Frac(8, 10))
                ELSE IF ComposedDispersion < 16 * 10 * 10
                THEN FracMul(start, Frac(11, 10))
                ELSE start
        IN  ComposedSignal.confidence
                = FracMax(Frac(0, 1), FracMin(Frac(95, 1), scaled))

(***************************************************************************)
(* The RSI adjustment of the technical score.                              *)
(***************************************************************************)
\* The same scorer has scored the data before and after the step, and
\* neither call raised.
Rescored ==
    /\ result.op \in {"_calculate_technical_score",
                      "_analyze_technical_indicators"}
    /\ result'.op = result.op
    /\ ~result.results[1].raised
    /\ ~result'.results[1].raised

RsiAdjustment(rsi) == IF rsi < 30 THEN 15 ELSE IF rsi > 70 THEN -15 ELSE 0

\* C24: with all other indicator values held fixed the RSI adjustment of
\* the technical score is +15 exactly when RSI < 30, -15 exactly when
\* RSI > 70 and 0 in between, so over a rising RSI the score never rises and
\* changes only at the 30 and 70 thresholds.
C24_RsiAdjustmentBands ==
    [][Rescored =>
        /\ result'.results[1].technical_score
               - result.results[1].technical_score
             = RsiAdjustment(market'.indicators.rsi)
               - RsiAdjustment(market.indicators.rsi)
        /\ result'.results[1].technical_score
               <= result.results[1].technical_score]_vars

(***************************************************************************)
(* The signal cache.                                                       *)
(***************************************************************************)
Generated == result'.op = "generate_trading_signal" /\ now' = now
GeneratedCall == result'.results[1]
CachedAge(symbol) == now - signal_cache[symbol].timestamp
Recomputed(call) ==
    /\ call.signal # None
    /\ call.signal[1].timestamp = now
    /\ call.symbol \in DOMAIN signal_cache'
    /\ signal_cache'[call.symbol]
           = [signal |-> call.signal[1], timestamp |-> now]
ServedFromCache(call) ==
    /\ call.signal = Some(signal_cache[call.symbol].signal)
    /\ signal_cache' = signal_cache

C26_InterleavedTradesWithinLimit ==
    /\ Cardinality(OpenTrades) <= max_positions
    /\ \A symbol \in RaceSymbols : Cardinality(OpenTradesOf(symbol)) <= 1

(***************************************************************************)
(* Trade ids.                                                              *)
(***************************************************************************)
\* C27: the trade ids add_trade produces are unique among all
\* TradeRecords, two trades with the same symbol and action added within
\* the same clock second included, so that an id names one trade only.
C27_TradeIdsUnique ==
    \A i, j \in 1..Len(trades) :
        trades[i].trade_id = trades[j].trade_id => i = j

(***************************************************************************)
(* The opportunities of a scan.                                            *)
(***************************************************************************)
OpportunitiesScanned == result.op = "scan_for_opportunities"
AnalysedOutcome(symbol) ==
    AnalysisOutcome(market.analyses[symbol], indicator_weights)

PositionsLoaded == result'.op = "get_current_positions"

\* C29: get_current_positions returns for each symbol the quantity and the
\* entry_price the in-memory position held just before the call, and every
\* stored position has quantity > 0.
C29_TableAgreesWithMemory ==
    [][PositionsLoaded =>
        /\ \A symbol \in DOMAIN sqlite_history.positions :
              \E j \in 1..Len(result'.results) :
                  /\ result'.results[j].symbol = symbol
                  /\ result'.results[j].quantity
                         = sqlite_history.positions[symbol].quantity
                  /\ result'.results[j].entry_price
                         = sqlite_history.positions[symbol].entry_price
        /\ \A j \in 1..Len(result'.results) :
              /\ result'.results[j].symbol \in DOMAIN sqlite_history.positions
              /\ result'.results[j].quantity > 0]_vars

(***************************************************************************)
(* Starting and stopping live trading.                                     *)
(***************************************************************************)
Clicked(button) ==
    /\ result'.op = button
    /\ now' = now
    /\ <<session_state, result>>' # <<session_state, result>>

\* C30: live trading is switched on only by a click on start that follows
\* a click on start; a click on start that follows a click on stop or on
\* emergency stop never switches it on; stop and emergency stop leave it
\* off.
C30_StartNeedsTwoClicks ==
    [][/\ (~session_state.live_auto_trading
              /\ session_state'.live_auto_trading)
            => result.op = "start" /\ result'.op = "start"
       /\ (result.op \in {"stop", "emergency_stop"} /\ Clicked("start"))
            => ~session_state'.live_auto_trading
       /\ (Clicked("stop") \/ Clicked("emergency_stop"))
            => ~session_state'.live_auto_trading]_vars

====
